---- MODULE Spec2Model ----
(***************************************************************************)
(* Model of the esp8266 probe-request sniffer of src/src/main.cpp: the     *)
(* MAC buffer (macs, clientCount), the promiscuous-mode callback           *)
(* (sniffer_callback / showMetadata) and the channel hopping timer         *)
(* callback (channelHop), armed by setup().                                *)
(*                                                                         *)
(* C strings are strings, strcmp(a, b) == 0 is a = b.  Callbacks are        *)
(* dispatched one at a time by the SDK, so each handler is one action.     *)
(***************************************************************************)
EXTENDS Integers, Sequences, FiniteSets, TLC

(* ---- bounds of the model ------------------------------------------------ *)
\* largest BUFFER_SIZE explored
MaxCap == 2
\* frames are delivered while fewer than MaxLog sightings were reported
\* since the last buffer reset
MaxLog == 3
\* sweep boundaries (14 -> 1 wraparounds) explored
MaxSweeps == 1

\* the ticks after a sweep's end that the statement-by-statement
\* specification follows
MaxHops == 1

(* ---- program constants -------------------------------------------------- *)
TYPE_MANAGEMENT == 0
SUBTYPE_PROBE_REQUEST == 4
\* highest 2.4G channel, the literal of "new_channel > 14"
LastChannel == 14

Channels == 1..LastChannel

(* ---- inputs ------------------------------------------------------------- *)
\* data[0], data[1] of a delivered frame: probe request, beacon, a data
\* frame with subtype 4, and a frame whose HIGH byte looks like a probe
FrameControlBytes ==
  { <<64, 0>>, <<128, 0>>, <<72, 0>>, <<0, 64>> }

\* data[10..15] of a delivered frame; the second one is locally administered
AddrBytes ==
  { <<0, 17, 34, 51, 68, 85>>,
    <<2, 170, 187, 1, 2, 3>>,
    <<172, 222, 72, 0, 17, 34>> }

\* rx_ctrl.rssi (signed 8 bit) and rx_ctrl.channel (unsigned 4 bit)
RxControls ==
  { [rssi |-> -70, channel |-> 1], [rssi |-> -40, channel |-> 11] }

\* values of the configuration #defines explored
Capacities == 1..MaxCap
InitialChannels == {1, 14}
Configs ==
  [ IGNORE_LOCAL_MACS : BOOLEAN,
    STATIC_MODE : BOOLEAN,
    INITIAL_WIFI_CHANNEL : InitialChannels,
    BUFFER_SIZE : Capacities,
    SPI_SEND_ADDRESSES : BOOLEAN,
    SPI_SEND_CLIENT_COUNT : BOOLEAN ]

VARIABLES
  cfg,          \* the configuration #defines (fixed at build time)
  pc,           \* "boot" before setup() has run, "loop" after
  timerArmed,   \* channelHop_timer is armed
  channel,      \* the radio's channel: wifi_get_channel()
  macs,         \* char macs[BUFFER_SIZE][18], indexed from 0
  clientCount,  \* int clientCount
  handler,      \* the handler that ran last
  local,        \* locals of the last showMetadata call
  reads,        \* indices of macs read by the last bufferCheckMAC
  writes,       \* indices of macs written by the last handler
  out,          \* what the last handler sent to Serial and SPISlave
  sightings,    \* addresses reported since the last bufferReset (history)
  seen,         \* addresses that passed the filters since then (history)
  nWraps,       \* ticks that wrapped 14 -> 1 so far (history)
  nSummaries,   \* "Total clients:" lines printed so far (history)
  ticks,        \* ticks since setup or the last wraparound (history)
  race          \* the callbacks in progress when invocations may overlap

vars == << cfg, pc, timerArmed, channel, macs, clientCount, handler, local,
           reads, writes, out, sightings, seen, nWraps, nSummaries, ticks,
           race >>

(* ---- strings ------------------------------------------------------------ *)
EmptyStr == ""

HexDigits ==
  << "0", "1", "2", "3", "4", "5", "6", "7",
     "8", "9", "a", "b", "c", "d", "e", "f" >>

\* "%02x" of one byte
Hex2(b) == HexDigits[(b \div 16) + 1] \o HexDigits[(b % 16) + 1]

\* sprintf(addr, "%02x:%02x:%02x:%02x:%02x:%02x", data[offset+0], ...)
getMAC(data) ==
  Hex2(data[1]) \o ":" \o Hex2(data[2]) \o ":" \o Hex2(data[3])
    \o ":" \o Hex2(data[4]) \o ":" \o Hex2(data[5]) \o ":"
    \o Hex2(data[6])

DecDigits == << "0", "1", "2", "3", "4", "5", "6", "7", "8", "9" >>

RECURSIVE Dec(_)
\* "%d" of a non-negative int
Dec(n) ==
  IF n < 10 THEN DecDigits[n + 1]
  ELSE Dec(n \div 10) \o DecDigits[(n % 10) + 1]

\* uint8_t local = (data[10] & 0b00000010) >> 1; data is data[10..15] here
isLocalMAC(data) == ((data[1] \div 2) % 2) = 1

(* ---- frame control ------------------------------------------------------ *)
\* ((unsigned int)data[1] << 8) + data[0]
frameControlOf(fc) == fc[2] * 256 + fc[1]
\* (frameControl & 0b0000000000001100) >> 2
frameTypeOf(fc) == (frameControlOf(fc) \div 4) % 4
\* (frameControl & 0b0000000011110000) >> 4
frameSubTypeOf(fc) == (frameControlOf(fc) \div 16) % 16

(* ---- the MAC buffer ----------------------------------------------------- *)
InStorage(m, i) == i \in DOMAIN m

\* strcpy(macs[i], s): a write outside the array lands in other memory
Store(m, i, s) == IF InStorage(m, i) THEN [m EXCEPT ![i] = s] ELSE m

\* the indices bufferCheckMAC reads: for (i=0; i<=clientCount; i++), leaving
\* at the first match; beyond is what a read past the array finds
Slot(m, i, beyond) == IF InStorage(m, i) THEN m[i] ELSE beyond

\* variant: the scan starts at index 1
bufferCheckMAC_fromOne(m, n, newmac, beyond) ==
  \E i \in 1..n : Slot(m, i, beyond) = newmac

\* variant: the scan never reports a match
bufferCheckMAC_neverFound(m, n, newmac, beyond) == FALSE

bufferCheckMAC(m, n, newmac, beyond) ==
  \E i \in 0..n : Slot(m, i, beyond) = newmac

bufferCheckReads(m, n, newmac, beyond) ==
  { i \in 0..n : \A j \in 0..(i - 1) : Slot(m, j, beyond) # newmac }

\* variant: the entries are not moved down
RollLoop_noShift(m, i, n) == m

RECURSIVE RollLoop(_, _, _)
\* for (int i=1; i<clientCount; i++) strcpy(macs[i-1], macs[i]);
RollLoop(m, i, n) ==
  IF i < n THEN RollLoop(Store(m, i - 1, m[i]), i + 1, n) ELSE m

\* variant: rolls back only when clientCount > BUFFER_SIZE
bufferRollBack_strict(b, cap) ==
  IF b.clientCount > cap
  THEN [ macs |-> RollLoop(b.macs, 1, b.clientCount),
         clientCount |-> b.clientCount - 1,
         writes |-> b.writes \cup { i - 1 : i \in 1..(b.clientCount - 1) },
         lines |-> Append(b.lines, [kind |-> "rollback"]) ]
  ELSE b

\* bufferRollBack(), on buffer state b = [macs, clientCount, writes, lines]
bufferRollBack(b, cap) ==
  IF b.clientCount >= cap
  THEN [ macs |-> RollLoop(b.macs, 1, b.clientCount),
         clientCount |-> b.clientCount - 1,
         writes |-> b.writes \cup { i - 1 : i \in 1..(b.clientCount - 1) },
         lines |-> Append(b.lines, [kind |-> "rollback"]) ]
  ELSE b

\* bufferAdd(newmac): bufferRollBack(); strcpy(macs[clientCount++], newmac);
bufferAdd(b, cap, newmac) ==
  LET r == bufferRollBack(b, cap) IN
    [ macs |-> Store(r.macs, r.clientCount, newmac),
      clientCount |-> r.clientCount + 1,
      writes |-> r.writes \cup { r.clientCount },
      lines |-> r.lines ]

\* variant: the entries are not cleared
ResetLoop_none(m, i, n) == m

RECURSIVE ResetLoop(_, _, _)
\* for (int i=0; i<clientCount; i++) strcpy(macs[i], "");
ResetLoop(m, i, n) ==
  IF i < n THEN ResetLoop(Store(m, i, EmptyStr), i + 1, n) ELSE m

\* bufferReset()
bufferReset(b) ==
  [ macs |-> ResetLoop(b.macs, 0, b.clientCount),
    clientCount |-> 0,
    writes |-> b.writes \cup 0..(b.clientCount - 1),
    lines |-> Append(b.lines, [kind |-> "reset"]) ]

\* the occupied part of the buffer, oldest first
Occupied == [ i \in 1..clientCount |-> macs[i - 1] ]
OccupiedSet == { macs[i] : i \in 0..(clientCount - 1) }

\* the lines of one kind among the outputs o of a handler
Lines(o, k) == SelectSeq(o, LAMBDA e : e.kind = k)

(* ---- initial state ------------------------------------------------------ *)
NoLocal == [ fc |-> << >>, data |-> << >>, addr |-> EmptyStr,
             rssi |-> 0, channel |-> 0 ]

\* the invocations that may be in progress: two frame callbacks, one tick
FrameProcs == {"frame1", "frame2"}

Procs == FrameProcs \cup {"tick"}

\* no callback in progress; at is the statement an invocation is at, mac its
\* newmac, i its loop index; live is
\* the addresses reported with no eviction or reset since, twice says that
\* one of them was reported again, disturbed that macs or clientCount was
\* written by one invocation while a frame callback was between its scan
\* and the end of its bufferAdd
NoRace ==
  [ serialized |-> TRUE,
    at |-> [ p \in Procs |-> "idle" ],
    mac |-> [ p \in FrameProcs |-> EmptyStr ],
    i |-> [ p \in Procs |-> 0 ],
    live |-> {},
    twice |-> FALSE,
    disturbed |-> FALSE ]

\* the state of the globals at start, for the configurations cs
InitGlobals(cs) ==
  /\ cfg \in cs
  /\ pc = "boot"
  /\ timerArmed = FALSE
  /\ channel \in Channels
  /\ macs = [ i \in 0..(cfg.BUFFER_SIZE - 1) |-> EmptyStr ]
  /\ clientCount = 0
  /\ handler = "none"
  /\ local = NoLocal
  /\ reads = {}
  /\ writes = {}
  /\ out = << >>
  /\ sightings = << >>
  /\ seen = {}
  /\ nWraps = 0
  /\ nSummaries = 0
  /\ ticks = 0

InitWith(cs) == InitGlobals(cs) /\ race = NoRace

Init == InitWith(Configs)

\* BUFFER_SIZE 0: char macs[0][18]
ConfigsZero ==
  [ IGNORE_LOCAL_MACS : BOOLEAN,
    STATIC_MODE : BOOLEAN,
    INITIAL_WIFI_CHANNEL : InitialChannels,
    BUFFER_SIZE : {0},
    SPI_SEND_ADDRESSES : BOOLEAN,
    SPI_SEND_CLIENT_COUNT : BOOLEAN ]

InitZero == InitWith(ConfigsZero)

\* variant: the timer is never armed
ArmsTimer_never(c) == FALSE

(* ---- setup() ------------------------------------------------------------ *)
\* variant: the timer is armed whatever STATIC_MODE says
ArmsTimer_always(c) == TRUE

\* if (!STATIC_MODE) { ... os_timer_arm(&channelHop_timer, ..., 1); }
ArmsTimer(c) == ~c.STATIC_MODE

setup ==
  /\ pc = "boot"
  /\ pc' = "loop"
  /\ channel' = cfg.INITIAL_WIFI_CHANNEL
  /\ timerArmed' = ArmsTimer(cfg)
  /\ handler' = "setup"
  /\ ticks' = 0
  /\ UNCHANGED << cfg, macs, clientCount, local, reads, writes, out,
                  sightings, seen, nWraps, nSummaries, race >>

(* ---- sniffer_callback / showMetadata ------------------------------------ *)
\* variant: && instead of ||
NotProbeRequest_and(fc) ==
  /\ frameTypeOf(fc) # TYPE_MANAGEMENT
  /\ frameSubTypeOf(fc) # SUBTYPE_PROBE_REQUEST

\* frameType != TYPE_MANAGEMENT || frameSubType != SUBTYPE_PROBE_REQUEST
NotProbeRequest(fc) ==
  \/ frameTypeOf(fc) # TYPE_MANAGEMENT
  \/ frameSubTypeOf(fc) # SUBTYPE_PROBE_REQUEST

\* isLocalMAC(snifferPacket->data) && IGNORE_LOCAL_MACS
LocalIgnored(c, data) == isLocalMAC(data) /\ c.IGNORE_LOCAL_MACS

\* variant: the line carries the radio's current channel
SightingLine_radio(addr, rx, count) ==
  [ kind |-> "sighting", mac |-> addr, rssi |-> rx.rssi,
    channel |-> channel, cnt |-> count ]

\* sprintf(msg, "MAC: %s RSSI: %d Ch: %d cnt: %d", addr, rxControl.rssi,
\*         rxControl.channel, clientCount); Serial.println(msg);
SightingLine(addr, rx, count) ==
  [ kind |-> "sighting", mac |-> addr, rssi |-> rx.rssi,
    channel |-> rx.channel, cnt |-> count ]

\* what a read of macs[BUFFER_SIZE] can find: bytes that do not compare
\* equal to the address, or bytes that do
Beyond(newmac) ==
  IF clientCount >= cfg.BUFFER_SIZE THEN { EmptyStr, newmac } ELSE { EmptyStr }

\* getMAC(addr, snifferPacket->data, 10) of every address explored
MacOf == [ data \in AddrBytes |-> getMAC(data) ]

\* the part of showMetadata behind both filters, lines 141-152
reportIfNew(fc, data, rx) ==
  LET addr == MacOf[data] IN
  \E beyond \in Beyond(addr) :
    /\ local' = [ fc |-> fc, data |-> data, addr |-> addr,
                  rssi |-> rx.rssi, channel |-> rx.channel ]
    /\ reads' = bufferCheckReads(macs, clientCount, addr, beyond)
    /\ seen' = seen \cup { addr }
    /\ IF ~bufferCheckMAC(macs, clientCount, addr, beyond)
       THEN LET b == bufferAdd([ macs |-> macs, clientCount |-> clientCount,
                                 writes |-> {}, lines |-> << >> ],
                               cfg.BUFFER_SIZE, addr)
            IN /\ macs' = b.macs
               /\ clientCount' = b.clientCount
               /\ writes' = b.writes
               /\ out' = b.lines
                    \o << SightingLine(addr, rx, b.clientCount) >>
                    \o (IF cfg.SPI_SEND_ADDRESSES
                        THEN << [kind |-> "spi", data |-> addr] >>
                        ELSE << >>)
               /\ sightings' = Append(sightings, addr)
       ELSE /\ writes' = {}
            /\ out' = << >>
            /\ UNCHANGED << macs, clientCount, sightings >>

\* showMetadata(snifferPacket): the frame's bytes are chosen where the code
\* first reads them (data[0..1], then data[10..15], then rx_ctrl)
showMetadata ==
  \E fc \in FrameControlBytes :
    IF NotProbeRequest(fc)
    THEN /\ local' = [ NoLocal EXCEPT !.fc = fc ]
         /\ reads' = {}
         /\ writes' = {}
         /\ out' = << >>
         /\ UNCHANGED << macs, clientCount, sightings, seen >>
    ELSE \E data \in AddrBytes :
           IF LocalIgnored(cfg, data)
           THEN /\ local' = [ NoLocal EXCEPT !.fc = fc, !.data = data ]
                /\ reads' = {}
                /\ writes' = {}
                /\ out' = << >>
                /\ UNCHANGED << macs, clientCount, sightings, seen >>
           ELSE \E rx \in RxControls : reportIfNew(fc, data, rx)

sniffer_callback ==
  /\ pc = "loop"
  /\ Len(sightings) < MaxLog
  /\ showMetadata
  /\ handler' = "sniffer_callback"
  /\ nSummaries' = nSummaries + Len(Lines(out', "summary"))
  /\ UNCHANGED << cfg, pc, timerArmed, channel, nWraps, ticks, race >>

(* ---- channelHop() ------------------------------------------------------- *)
\* if(SPI_SEND_CLIENT_COUNT) { ...; SPISlave.setData(msg); bufferReset(); }
ResetsOnSweep(c) == c.SPI_SEND_CLIENT_COUNT

\* variant: the channel advances by two
NextChannel_two(c) == (c + 2) % 256

\* uint8 new_channel = wifi_get_channel() + 1;
NextChannel(c) == (c + 1) % 256

\* variant: >= instead of >
WrapsAround_atLast(new_channel) == new_channel >= LastChannel

\* if (new_channel > 14)
WrapsAround(new_channel) == new_channel > LastChannel

\* wifi_set_channel(new_channel); Serial.print("Channel: ");
\* Serial.println(wifi_get_channel());
RadioLines(new_channel) ==
  << [kind |-> "radio", channel |-> new_channel],
     [kind |-> "channel", channel |-> new_channel] >>

\* channelHop(); forever says that the history counters nWraps and
\* nSummaries stop at MaxSweeps instead of stopping the sweeps
hop(forever) ==
  /\ pc = "loop"
  /\ timerArmed
  /\ LET new_channel == NextChannel(channel)
         b0 == [ macs |-> macs, clientCount |-> clientCount,
                 writes |-> {}, lines |-> << >> ]
     IN IF WrapsAround(new_channel)
        THEN /\ forever \/ nWraps < MaxSweeps
             /\ channel' = 1
             /\ nWraps' = (IF nWraps < MaxSweeps THEN nWraps + 1 ELSE nWraps)
             /\ ticks' = 0
             /\ IF ResetsOnSweep(cfg)
                THEN LET b == bufferReset(b0) IN
                     /\ macs' = b.macs
                     /\ clientCount' = b.clientCount
                     /\ writes' = b.writes
                     /\ out' = << [kind |-> "summary", cnt |-> clientCount],
                                  [kind |-> "spi", data |-> Dec(clientCount)] >>
                               \o b.lines
                               \o RadioLines(1)
                     /\ sightings' = << >>
                     /\ seen' = {}
                ELSE /\ writes' = {}
                     /\ out' = << [kind |-> "summary", cnt |-> clientCount] >>
                               \o RadioLines(1)
                     /\ UNCHANGED << macs, clientCount, sightings, seen >>
        ELSE /\ channel' = new_channel
             /\ writes' = {}
             /\ out' = RadioLines(new_channel)
             /\ ticks' = ticks + 1
             /\ UNCHANGED << macs, clientCount, sightings, seen, nWraps >>
  /\ handler' = "channelHop"
  /\ LET n == nSummaries + Len(Lines(out', "summary")) IN
       nSummaries' = (IF forever /\ n > MaxSweeps THEN MaxSweeps ELSE n)
  /\ UNCHANGED << cfg, pc, timerArmed, local, reads, race >>

\* the timer callback, for at most MaxSweeps sweeps
channelHop == hop(FALSE)

\* the timer callback of a timer that runs for ever:
\* os_timer_arm(&channelHop_timer, CHANNEL_HOP_INTERVAL_MS, 1)
channelHopForever == hop(TRUE)

(* ---- specification ------------------------------------------------------ *)
Next == setup \/ sniffer_callback \/ channelHop

Spec == Init /\ [][Next]_vars

\* the program built with BUFFER_SIZE 0
SpecZero == InitZero /\ [][Next]_vars

\* the configurations of the specification with a timer that runs for ever
ConfigsLive ==
  { c \in Configs : c.BUFFER_SIZE = 1 /\ ~c.SPI_SEND_ADDRESSES }

InitLive == InitWith(ConfigsLive)

NextLive == setup \/ sniffer_callback \/ channelHopForever

\* setup() is run once at start and the armed timer keeps firing
SpecLive ==
  InitLive /\ [][NextLive]_vars
    /\ WF_vars(setup) /\ WF_vars(channelHopForever)

TypeOK ==
  /\ cfg \in Configs
  /\ pc \in {"boot", "loop"}
  /\ timerArmed \in BOOLEAN
  /\ channel \in 0..255
  /\ clientCount \in Int
  /\ handler \in {"none", "setup", "sniffer_callback", "channelHop"}
  /\ nWraps \in 0..MaxSweeps
  /\ nSummaries \in Nat

(* ---- the callbacks statement by statement -------------------------------- *)
\* the program with SPI_SEND_CLIENT_COUNT, so that the tick at the end of a
\* sweep calls bufferReset(), from the last channel, with every frame reaching
\* the scan
ConfigsSched ==
  { c \in Configs : /\ c.SPI_SEND_CLIENT_COUNT
                    /\ ~c.SPI_SEND_ADDRESSES
                    /\ ~c.STATIC_MODE
                    /\ c.IGNORE_LOCAL_MACS
                    /\ c.INITIAL_WIFI_CHANNEL = LastChannel }

\* callbacks are dispatched one at a time, or may overlap
InitSched ==
  /\ InitGlobals(ConfigsSched)
  /\ race \in { [ NoRace EXCEPT !.serialized = b ] : b \in BOOLEAN }

\* invocation p may execute its next statement: under serialized dispatch
\* only while no other invocation is in progress
MayStep(p) ==
  /\ pc = "loop"
  /\ race.serialized => \A q \in Procs \ {p} : race.at[q] = "idle"

\* the statements of a frame callback between its scan and the end of bufferAdd
MidInsert == {"test", "shift", "dec", "add"}

\* a write of macs or clientCount by p, as the history variable sees it
Written(p) ==
  race.disturbed \/ \E q \in FrameProcs \ {p} : race.at[q] \in MidInsert

\* the index written, if it is outside macs
Outside(i) == IF InStorage(macs, i) THEN {} ELSE {i}

SchedFrame == << cfg, pc, timerArmed, channel, handler, local, reads, out,
                 sightings, seen, nWraps, nSummaries, ticks >>

\* showMetadata up to if (!bufferCheckMAC(addr)): a frame that is dropped
\* or whose address is found ends the invocation; frame2 is the invocation
\* that begins while another one is in progress
frameCheck(p) ==
  /\ MayStep(p)
  /\ race.at[p] = "idle"
  /\ p = "frame2" => race.at["frame1"] # "idle"
  /\ \E fc \in FrameControlBytes, data \in AddrBytes :
       /\ ~NotProbeRequest(fc)
       /\ ~LocalIgnored(cfg, data)
       /\ \E beyond \in Beyond(MacOf[data]) :
            /\ ~bufferCheckMAC(macs, clientCount, MacOf[data], beyond)
            /\ race' = [ race EXCEPT !.at[p] = "test", !.mac[p] = MacOf[data] ]
  /\ writes' = {}
  /\ UNCHANGED << macs, clientCount >>
  /\ UNCHANGED SchedFrame

\* bufferRollBack: if (clientCount >= BUFFER_SIZE), "Buffer rollback."; the
\* entry at index 0 is the one a rollback makes room with
frameTest(p) ==
  /\ MayStep(p)
  /\ race.at[p] = "test"
  /\ IF clientCount >= cfg.BUFFER_SIZE
     THEN race' = [ race EXCEPT !.at[p] = "shift", !.i[p] = 1,
                                !.live = @ \ { Slot(macs, 0, EmptyStr) } ]
     ELSE race' = [ race EXCEPT !.at[p] = "add" ]
  /\ writes' = {}
  /\ UNCHANGED << macs, clientCount >>
  /\ UNCHANGED SchedFrame

\* for (int i=1; i<clientCount; i++) strcpy(macs[i-1], macs[i]);
frameShift(p) ==
  /\ MayStep(p)
  /\ race.at[p] = "shift"
  /\ IF race.i[p] < clientCount
     THEN \E beyond \in Beyond(race.mac[p]) :
            /\ macs' = Store(macs, race.i[p] - 1, Slot(macs, race.i[p], beyond))
            /\ writes' = Outside(race.i[p] - 1)
            /\ race' = [ race EXCEPT !.i[p] = @ + 1, !.disturbed = Written(p) ]
     ELSE /\ race' = [ race EXCEPT !.at[p] = "dec", !.i[p] = 0 ]
          /\ writes' = {}
          /\ UNCHANGED macs
  /\ UNCHANGED clientCount
  /\ UNCHANGED SchedFrame

\* clientCount--;
frameDec(p) ==
  /\ MayStep(p)
  /\ race.at[p] = "dec"
  /\ clientCount' = clientCount - 1
  /\ race' = [ race EXCEPT !.at[p] = "add", !.disturbed = Written(p) ]
  /\ writes' = {}
  /\ UNCHANGED macs
  /\ UNCHANGED SchedFrame

\* strcpy(macs[clientCount++],newmac); and, back in showMetadata, the
\* sighting printed
frameAdd(p) ==
  /\ MayStep(p)
  /\ race.at[p] = "add"
  /\ macs' = Store(macs, clientCount, race.mac[p])
  /\ writes' = Outside(clientCount)
  /\ clientCount' = clientCount + 1
  /\ race' = [ race EXCEPT !.at[p] = "idle", !.mac[p] = EmptyStr,
                            !.disturbed = Written(p),
                            !.live = @ \cup { race.mac[p] },
                            !.twice = @ \/ race.mac[p] \in race.live ]
  /\ UNCHANGED SchedFrame

SchedTick == << cfg, pc, timerArmed, handler, local, reads, out, sightings,
                seen, nWraps, nSummaries >>

\* channelHop on a tick that does not end a sweep, for MaxHops such ticks
tickAdvance ==
  /\ MayStep("tick")
  /\ timerArmed
  /\ race.at["tick"] = "idle"
  /\ ~WrapsAround(NextChannel(channel))
  /\ ticks < MaxHops
  /\ ticks' = ticks + 1
  /\ channel' = NextChannel(channel)
  /\ writes' = {}
  /\ UNCHANGED << macs, clientCount, race >>
  /\ UNCHANGED SchedTick

\* channelHop at the end of a sweep, up to "Resetting buffer."
tickStart ==
  /\ MayStep("tick")
  /\ timerArmed
  /\ race.at["tick"] = "idle"
  /\ WrapsAround(NextChannel(channel))
  /\ ResetsOnSweep(cfg)
  /\ race' = [ race EXCEPT !.at["tick"] = "clear", !.i["tick"] = 0,
                            !.live = {} ]
  /\ writes' = {}
  /\ UNCHANGED << macs, clientCount, channel, ticks >>
  /\ UNCHANGED SchedTick

\* for (int i=0; i<clientCount; i++) strcpy(macs[i], "");
tickClear ==
  /\ MayStep("tick")
  /\ race.at["tick"] = "clear"
  /\ IF race.i["tick"] < clientCount
     THEN /\ macs' = Store(macs, race.i["tick"], EmptyStr)
          /\ writes' = Outside(race.i["tick"])
          /\ race' = [ race EXCEPT !.i["tick"] = @ + 1,
                                    !.disturbed = Written("tick") ]
     ELSE /\ race' = [ race EXCEPT !.at["tick"] = "zero", !.i["tick"] = 0 ]
          /\ writes' = {}
          /\ UNCHANGED macs
  /\ UNCHANGED << clientCount, channel, ticks >>
  /\ UNCHANGED SchedTick

\* clientCount = 0; and, back in channelHop, wifi_set_channel(new_channel)
tickZero ==
  /\ MayStep("tick")
  /\ race.at["tick"] = "zero"
  /\ clientCount' = 0
  /\ channel' = 1
  /\ ticks' = 0
  /\ race' = [ race EXCEPT !.at["tick"] = "idle",
                            !.disturbed = Written("tick") ]
  /\ writes' = {}
  /\ UNCHANGED macs
  /\ UNCHANGED SchedTick

frameStep ==
  \E p \in FrameProcs :
    \/ frameCheck(p)
    \/ frameTest(p)
    \/ frameShift(p)
    \/ frameDec(p)
    \/ frameAdd(p)

NextSched ==
  setup \/ frameStep \/ tickAdvance \/ tickStart \/ tickClear \/ tickZero

SpecSched == InitSched /\ [][NextSched]_vars

(* ---- properties --------------------------------------------------------- *)
Cap == cfg.BUFFER_SIZE

\* a frame was handled that passed both filters of showMetadata
PassedFilters == handler = "sniffer_callback" /\ local.addr # EmptyStr

\* C1: the occupied positions 0..clientCount-1 of macs never hold the same
\* address twice.
C1_NoDuplicates ==
  \A i, j \in 0..(clientCount - 1) : i # j => macs[i] # macs[j]

\* a frame for an address held in a buffer of two entries was dropped
C1_Witness ==
  /\ PassedFilters
  /\ clientCount = 2
  /\ local.addr \in OccupiedSet
  /\ out = << >>

\* C2: a tick that wraps the channel from 14 to 1 leaves clientCount = 0,
\* for every configuration.
C2_SweepClearsBuffer ==
  [][ (handler' = "channelHop" /\ channel = LastChannel /\ channel' = 1)
        => clientCount' = 0 ]_vars

\* C3: a tick that wraps from 14 to 1 prints exactly one "Total clients:"
\* line, carrying the clientCount held before the tick; any other tick prints
\* none; the number of such lines equals the number of wraparounds.
C3_OneSummaryPerWrap ==
  /\ [][ handler' = "channelHop" =>
           LET s == Lines(out', "summary") IN
             IF channel = LastChannel /\ channel' = 1
             THEN Len(s) = 1 /\ s[1].cnt = clientCount
             ELSE Len(s) = 0 ]_vars
  /\ [](nSummaries = nWraps)

\* a sweep boundary was passed with a non-empty buffer
C3_Witness ==
  /\ handler = "channelHop"
  /\ channel = 1
  /\ nWraps = 1
  /\ Len(Lines(out, "summary")) = 1
  /\ Lines(out, "summary")[1].cnt > 0

\* the addresses reported since the last bufferReset
Reported == { sightings[i] : i \in 1..Len(sightings) }

C5_InsertEvictsOldest ==
  [][ (handler' = "sniffer_callback" /\ writes' # {}) =>
        IF clientCount < Cap
        THEN /\ clientCount' = clientCount + 1
             /\ Occupied' = Append(Occupied, local'.addr)
        ELSE /\ clientCount' = Cap
             /\ Occupied' = Append(Tail(Occupied), local'.addr) ]_vars

\* three addresses went into a buffer of two: the last two are left
C5_Witness ==
  /\ Cap = 2
  /\ Len(sightings) = 3
  /\ Len(Lines(out, "rollback")) = 1
  /\ Occupied = << sightings[2], sightings[3] >>
  /\ sightings[1] \notin OccupiedSet

\* C6: a frame that passes the filters is reported and inserted iff its
\* address is absent from the occupied part of the buffer; if it is present
\* the buffer, clientCount and the outputs are unchanged.
C6_SightingIffAbsent ==
  [][ (handler' = "sniffer_callback" /\ local'.addr # EmptyStr) =>
        IF local'.addr \in OccupiedSet
        THEN /\ out' = << >>
             /\ macs' = macs
             /\ clientCount' = clientCount
        ELSE /\ Len(Lines(out', "sighting")) = 1
             /\ Lines(out', "sighting")[1].mac = local'.addr
             /\ local'.addr \in OccupiedSet' ]_vars

\* C7: 0 <= clientCount <= BUFFER_SIZE in every state, and every write of a
\* handler into macs targets an index in 0..BUFFER_SIZE-1.
C7_SizeInRange ==
  /\ clientCount \in 0..Cap
  /\ writes \subseteq 0..(Cap - 1)

\* an insertion into a full buffer rolled the buffer back
C7_Witness ==
  /\ handler = "sniffer_callback"
  /\ Len(Lines(out, "rollback")) = 1
  /\ clientCount = Cap
  /\ writes = 0..(Cap - 1)

\* C8: the membership test reads only the occupied entries 0..clientCount-1
\* (clientCount as it is when the test runs), never the slot at index
\* clientCount, and so never an index >= BUFFER_SIZE.
C8_ScanOnlyOccupied ==
  [][ (handler' = "sniffer_callback" /\ local'.addr # EmptyStr) =>
        /\ reads' \subseteq 0..(clientCount - 1)
        /\ reads' \subseteq 0..(Cap - 1) ]_vars

\* C9: a frame whose frame-control value (data[0] low byte, data[1] high
\* byte) has type bits 2-3 # 0 or subtype bits 4-7 # 4 produces no output and
\* leaves macs, clientCount and the channel unchanged.
C9_OtherFramesDropped ==
  [][ ( /\ handler' = "sniffer_callback"
        /\ \/ (local'.fc[1] \div 4) % 4 # 0
           \/ (local'.fc[1] \div 16) % 16 # 4 )
        => /\ out' = << >>
           /\ macs' = macs
           /\ clientCount' = clientCount
           /\ channel' = channel
           /\ sightings' = sightings ]_vars

\* a data frame with subtype 4 was dropped while the buffer held an entry
C9_Witness ==
  /\ handler = "sniffer_callback"
  /\ local.fc = << 72, 0 >>
  /\ clientCount > 0
  /\ out = << >>

\* C10: with STATIC_MODE no tick handler runs: no "Total clients:" line is
\* printed, the channel stays at INITIAL_WIFI_CHANNEL, the buffer is never
\* reset, and clientCount never decreases, so that it stays at BUFFER_SIZE
\* once it got there.
C10_StaticMode ==
  /\ [][ cfg.STATIC_MODE =>
           /\ handler' # "channelHop"
           /\ nSummaries' = nSummaries
           /\ Len(Lines(out', "reset")) = 0
           /\ clientCount' >= clientCount
           /\ (clientCount = Cap => clientCount' = Cap)
           /\ (pc = "loop" => channel' = channel) ]_vars
  /\ []( (cfg.STATIC_MODE /\ pc = "loop")
           => (channel = cfg.INITIAL_WIFI_CHANNEL /\ nSummaries = 0) )

\* in static mode an insertion into a full buffer evicted an entry
C10_Witness ==
  /\ cfg.STATIC_MODE
  /\ pc = "loop"
  /\ clientCount = Cap
  /\ Len(Lines(out, "rollback")) = 1

\* C12: the channel is in 1..14 in every state; a tick takes it from c to
\* c+1 when c < 14 and from 14 to 1, and hands that value to the radio
\* (wifi_set_channel) exactly once.
C12_ChannelAdvance ==
  /\ [](channel \in 1..LastChannel)
  /\ [][ handler' = "channelHop" =>
           /\ channel' = (IF channel < LastChannel THEN channel + 1 ELSE 1)
           /\ Lines(out', "radio")
                = << [kind |-> "radio", channel |-> channel'] >> ]_vars

\* a tick wrapped the channel from 14 to 1 and applied 1 to the radio
C12_Witness ==
  /\ handler = "channelHop"
  /\ nWraps = 1
  /\ channel = 1
  /\ Lines(out, "radio") = << [kind |-> "radio", channel |-> 1] >>

\* C16: a frame callback never changes the channel, and a tick that does not
\* wrap from 14 to 1 leaves the buffer contents and clientCount unchanged.
C16_DisjointState ==
  [][ /\ handler' = "sniffer_callback" => channel' = channel
      /\ (handler' = "channelHop" /\ ~(channel = LastChannel /\ channel' = 1))
           => (macs' = macs /\ clientCount' = clientCount) ]_vars

\* a tick that did not wrap ran on a non-empty buffer, with the buffer reset
\* at sweep boundaries
C16_Witness ==
  /\ handler = "channelHop"
  /\ cfg.SPI_SEND_CLIENT_COUNT
  /\ channel = LastChannel
  /\ clientCount > 0

\* C17: every sighting line carries clientCount as it is right after the
\* insertion: a value in 1..BUFFER_SIZE, the previous clientCount + 1 while
\* the buffer was not full and BUFFER_SIZE when it was full; its rssi and
\* channel are those of the frame's rx_ctrl, not the radio's channel.
C17_SightingFields ==
  [][ (handler' = "sniffer_callback" /\ Len(Lines(out', "sighting")) > 0) =>
        LET s == Lines(out', "sighting")[1] IN
          /\ Len(Lines(out', "sighting")) = 1
          /\ s.cnt = clientCount'
          /\ s.cnt \in 1..Cap
          /\ s.cnt = (IF clientCount < Cap THEN clientCount + 1 ELSE Cap)
          /\ s.mac = local'.addr
          /\ s.rssi = local'.rssi
          /\ s.channel = local'.channel ]_vars

\* a sighting was printed for an insertion into a full buffer, for a frame
\* received on another channel than the radio is set to
C17_Witness ==
  /\ handler = "sniffer_callback"
  /\ Len(Lines(out, "rollback")) = 1
  /\ Len(Lines(out, "sighting")) = 1
  /\ Lines(out, "sighting")[1].cnt = Cap
  /\ Lines(out, "sighting")[1].channel # channel

\* C19: between callbacks, whenever clientCount < BUFFER_SIZE every slot at
\* an index >= clientCount holds "", every address is 17 characters long, and
\* so the scan of a buffer that is not full finds the address iff it is among
\* the occupied entries 0..clientCount-1.
C19_StaleSlotsEmpty ==
  /\ [](clientCount < Cap =>
          \A i \in clientCount..(Cap - 1) : macs[i] = EmptyStr)
  /\ [](\A a \in seen : Len(a) = 17)
  /\ [][ (handler' = "sniffer_callback" /\ local'.addr # EmptyStr
            /\ clientCount < Cap) =>
           (Len(Lines(out', "sighting")) = 0 <=> local'.addr \in OccupiedSet)
     ]_vars

\* a full buffer of two entries was reset at a sweep boundary
C19_Witness ==
  /\ handler = "channelHop"
  /\ Cap = 2
  /\ Len(Lines(out, "reset")) = 1
  /\ Lines(out, "summary")[1].cnt = 2
  /\ clientCount = 0

\* a probe request whose first address byte data[10] has bit 1 set
LocalProbe(l) ==
  /\ l.data # << >>
  /\ (l.data[1] \div 2) % 2 = 1

\* C11, with IGNORE_LOCAL_MACS: a probe request whose data[10] has bit 1 set
\* produces no sighting and leaves the buffer unchanged.
C11_LocalFiltered ==
  [][ (handler' = "sniffer_callback" /\ LocalProbe(local')
         /\ cfg.IGNORE_LOCAL_MACS)
        => /\ out' = << >>
           /\ macs' = macs
           /\ clientCount' = clientCount
           /\ sightings' = sightings ]_vars

\* C11, without IGNORE_LOCAL_MACS: such a frame is handled like any other
\* probe request, that is, inserted and reported if its address is absent
\* from the buffer (and dropped if it is present).
C11_LocalUnfiltered ==
  [][ (handler' = "sniffer_callback" /\ LocalProbe(local')
         /\ ~cfg.IGNORE_LOCAL_MACS)
        => IF MacOf[local'.data] \in OccupiedSet
           THEN out' = << >> /\ macs' = macs /\ clientCount' = clientCount
           ELSE /\ Len(Lines(out', "sighting")) = 1
                /\ Lines(out', "sighting")[1].mac = MacOf[local'.data]
                /\ Occupied'[clientCount'] = MacOf[local'.data] ]_vars

\* C11: both halves of the claim.
C11_LocalFilter == C11_LocalFiltered /\ C11_LocalUnfiltered

\* the last min(k, BUFFER_SIZE) of the k sightings since the last bufferReset
LastSightings ==
  LET k == Len(sightings)
      n == IF k < Cap THEN k ELSE Cap
  IN SubSeq(sightings, k - n + 1, k)

\* the number of sightings since the last sighting of address a
SinceReport(a) ==
  LET last == CHOOSE i \in 1..Len(sightings) :
                /\ sightings[i] = a
                /\ \A j \in (i + 1)..Len(sightings) : sightings[j] # a
  IN Len(sightings) - last

\* C18, first half: the occupied part of the buffer is, in order, the last
\* min(k, BUFFER_SIZE) sightings since the last bufferReset.
C18_BufferIsLastSightings == [](Occupied = LastSightings)

\* C18, second half: a frame of an address reported before in the window is
\* reported again exactly when at least BUFFER_SIZE other sightings were
\* emitted since its previous report.
C18_ReportedAgainIffEvicted ==
  [][ (handler' = "sniffer_callback" /\ local'.addr # EmptyStr
         /\ local'.addr \in Reported)
        => (Len(Lines(out', "sighting")) = 1
              <=> SinceReport(local'.addr) >= Cap) ]_vars

\* C18: both halves of the claim.
C18_Fifo == C18_BufferIsLastSightings /\ C18_ReportedAgainIffEvicted

\* C14: a BUFFER_SIZE of zero is rejected or clamped before any frame is
\* handled: no frame is handled with capacity 0, clientCount never gets
\* negative and no write lands outside macs.
C14_ZeroCapacityRejected ==
  /\ (Cap = 0 => handler # "sniffer_callback")
  /\ clientCount >= 0
  /\ \A i \in writes : InStorage(macs, i)

\* a sweep boundary was just passed
AtBoundary == handler = "channelHop" /\ ticks = 0 /\ channel = 1

\* C15: without STATIC_MODE, if ticks keep occurring, sweep boundaries occur
\* infinitely often; from INITIAL_WIFI_CHANNEL c the first one is the
\* (15-c)-th tick and each later one the 14th tick after the one before, and
\* in between the channel goes up by one per tick, through 1..14.
C15_SweepsForever ==
  /\ []<>(cfg.STATIC_MODE \/ AtBoundary)
  /\ []((pc = "loop" /\ ~cfg.STATIC_MODE) =>
          /\ channel \in 1..LastChannel
          /\ channel = (IF nWraps = 0 THEN cfg.INITIAL_WIFI_CHANNEL ELSE 1)
                         + ticks)
  /\ [][ handler' = "channelHop" =>
           IF channel = LastChannel
           THEN /\ channel' = 1
                /\ ticks' = 0
                /\ ticks + 1 = (IF nWraps = 0
                                THEN 15 - cfg.INITIAL_WIFI_CHANNEL
                                ELSE 14)
           ELSE /\ channel' = channel + 1
                /\ ticks' = ticks + 1 ]_vars

\* a sweep that began on channel 1 has reached its boundary, a summary of
\* one client printed
C15_Witness ==
  /\ AtBoundary
  /\ nWraps = MaxSweeps
  /\ nSummaries = MaxSweeps
  /\ cfg.INITIAL_WIFI_CHANNEL = 1
  /\ clientCount = 1

\* C13: when callbacks are dispatched one at a time, nothing writes the buffer
\* between a frame callback's scan and the end of its insert, and so the
\* occupied entries hold no address twice, the size stays in 0..capacity, no
\* write lands outside macs and no address is reported twice without an
\* eviction or a reset in between.
C13_SerializedIsSafe ==
  race.serialized =>
    /\ ~race.disturbed
    /\ ~race.twice
    /\ clientCount \in 0..Cap
    /\ \A i \in writes : InStorage(macs, i)
    /\ \A p, q \in Procs : p # q => race.at[p] = "idle" \/ race.at[q] = "idle"
    /\ (\A p \in Procs : race.at[p] = "idle") =>
         /\ race.live = OccupiedSet
         /\ \A i, j \in 0..(clientCount - 1) : i # j => macs[i] # macs[j]

\* when callbacks may overlap: an address was reported twice with no eviction
\* or reset in between, and a reset between the steps of an insert has left
\* the size negative
C13_Witness ==
  /\ ~race.serialized
  /\ race.disturbed
  /\ race.twice
  /\ clientCount < 0
====
